---------------------------- MODULE Spec2Model ----------------------------
(***************************************************************************)
(* The data-cleaning pipeline of the notebook                              *)
(*   src/Ch1 DataScienceProcess/airbnb/Seattle Airbnb Kaggle - 4.ipynb     *)
(* (helper functions, lines 195-262; clean_dataset, lines 272-359).        *)
(*                                                                         *)
(* A table (pandas DataFrame) is a record                                  *)
(*    [cols : sequence of column names, idx : sequence of row labels,      *)
(*     rows : sequence of rows, a row the sequence of its cells in the     *)
(*     order of cols].                                                     *)
(* A cell is a record [t, s, n, d]:                                        *)
(*    t = "nan"  the float NaN (a missing value),                          *)
(*    t = "str"  a Python str, s its characters,                           *)
(*    t = "num"  a number, the rational n/d in lowest terms (d > 0).       *)
(* Strings are sequences of one-character strings, so that split, replace  *)
(* and the int()/float() conversions are computed character by character.  *)
(* Floats are modelled as exact rationals (rounding is not modelled).      *)
(*                                                                         *)
(* The notebook's kernel is Python 3.5 (metadata, line 742) with the       *)
(* pandas of that time: Series.str.replace takes its pattern as a regular  *)
(* expression, fillna(inplace=True) on a column writes through to the      *)
(* table, and a dict iterates in an order the interpreter chooses.         *)
(***************************************************************************)
EXTENDS Integers, Sequences, FiniteSets, TLC

(***************************************************************************)
(* Cells                                                                   *)
(***************************************************************************)
NaN == [t |-> "nan", s |-> <<>>, n |-> 0, d |-> 1]

Str(chars) == [t |-> "str", s |-> chars, n |-> 0, d |-> 1]

Abs(x) == IF x < 0 THEN -x ELSE x

RECURSIVE Gcd(_, _)
Gcd(a, b) == IF b = 0 THEN a ELSE Gcd(b, a % b)

\* the rational num/den in lowest terms, den > 0
Rat(num, den) ==
    LET g == Gcd(Abs(num), Abs(den))
        sg == IF den < 0 THEN -1 ELSE 1
    IN  [t |-> "num", s |-> <<>>, n |-> sg * (num \div g), d |-> sg * (den \div g)]

Num(k) == Rat(k, 1)

\* the outcome of an expression that raises an exception
Raise == [t |-> "raise", s |-> <<>>, n |-> 0, d |-> 1]

isnull(c) == c.t = "nan"

RatAdd(a, b) == Rat(a.n * b.d + b.n * a.d, a.d * b.d)

RatSub(a, b) == Rat(a.n * b.d - b.n * a.d, a.d * b.d)

RatMul(a, b) == Rat(a.n * b.n, a.d * b.d)

RatLt(a, b) == a.n * b.d < b.n * a.d

RatLe(a, b) == a.n * b.d <= b.n * a.d

(***************************************************************************)
(* Python str methods and conversions, on character sequences              *)
(***************************************************************************)
Digits == <<"0", "1", "2", "3", "4", "5", "6", "7", "8", "9">>

IsDigit(c) == \E i \in 1..10 : Digits[i] = c

DigitVal(c) == (CHOOSE i \in 1..10 : Digits[i] = c) - 1

Whitespace == {" "}

\* str.replace(ch, '') for every ch of chars; also the regex class [chars]
RECURSIVE RemoveChars(_, _)
RemoveChars(s, chars) ==
    IF s = <<>> THEN <<>>
    ELSE IF Head(s) \in chars THEN RemoveChars(Tail(s), chars)
         ELSE <<Head(s)>> \o RemoveChars(Tail(s), chars)

\* str.split(sep) for a one-character sep: always at least one piece
RECURSIVE SplitFrom(_, _, _)
SplitFrom(s, sep, cur) ==
    IF s = <<>> THEN <<cur>>
    ELSE IF Head(s) = sep THEN <<cur>> \o SplitFrom(Tail(s), sep, <<>>)
         ELSE SplitFrom(Tail(s), sep, Append(cur, Head(s)))

Split(s, sep) == SplitFrom(s, sep, <<>>)

RECURSIVE LStrip(_)
LStrip(s) == IF s # <<>> /\ Head(s) \in Whitespace THEN LStrip(Tail(s)) ELSE s

RECURSIVE RStrip(_)
RStrip(s) ==
    IF s # <<>> /\ s[Len(s)] \in Whitespace THEN RStrip(SubSeq(s, 1, Len(s) - 1)) ELSE s

Strip(s) == RStrip(LStrip(s))

RECURSIVE DigitsValue(_, _)
DigitsValue(s, acc) ==
    IF s = <<>> THEN acc ELSE DigitsValue(Tail(s), 10 * acc + DigitVal(Head(s)))

AllDigits(s) == \A i \in 1..Len(s) : IsDigit(s[i])

RECURSIVE Pow10(_)
Pow10(k) == IF k = 0 THEN 1 ELSE 10 * Pow10(k - 1)

Lower(c) ==
    CASE c = "N" -> "n" [] c = "A" -> "a" [] c = "I" -> "i" [] c = "F" -> "f"
      [] OTHER -> c

\* int(str): surrounding whitespace, an optional sign, decimal digits;
\* anything else raises ValueError
PyInt(s0) ==
    LET s == Strip(s0)
        signed == s # <<>> /\ Head(s) \in {"+", "-"}
        body == IF signed THEN Tail(s) ELSE s
    IN  IF body = <<>> \/ ~AllDigits(body) THEN Raise
        ELSE IF signed /\ Head(s) = "-" THEN Num(-DigitsValue(body, 0))
             ELSE Num(DigitsValue(body, 0))

\* float(str): surrounding whitespace, an optional sign, then "nan" (any case)
\* or decimal digits with at most one point and at least one digit; anything
\* else in the alphabet of the model raises ValueError
PyFloat(s0) ==
    LET s == Strip(s0)
        signed == s # <<>> /\ Head(s) \in {"+", "-"}
        body == IF signed THEN Tail(s) ELSE s
        sign == IF signed /\ Head(s) = "-" THEN -1 ELSE 1
        parts == Split(body, ".")
        ip == parts[1]
        fp == IF Len(parts) = 2 THEN parts[2] ELSE <<>>
    IN  IF [i \in 1..Len(body) |-> Lower(body[i])] = <<"n", "a", "n">> THEN NaN
        ELSE IF \/ Len(parts) > 2
                \/ ~AllDigits(ip) \/ ~AllDigits(fp)
                \/ (ip = <<>> /\ fp = <<>>)
             THEN Raise
             ELSE Rat(sign * DigitsValue(ip \o fp, 0), Pow10(Len(fp)))

RECURSIVE IntChars(_)
IntChars(k) ==
    IF k < 10 THEN <<Digits[k + 1]>> ELSE IntChars(k \div 10) \o <<Digits[(k % 10) + 1]>>

\* Series.astype(str) of one cell of an object column: str(value)
AsTypeStr(c) ==
    CASE c.t = "nan" -> <<"n", "a", "n">>
      [] c.t = "str" -> c.s
      [] OTHER -> (IF c.n < 0 THEN <<"-">> ELSE <<>>) \o IntChars(Abs(c.n)) \o <<".", "0">>

(***************************************************************************)
(* Tables                                                                  *)
(***************************************************************************)
\* a column name: a fixed name, or column_name + '_' + value for a dummy column
\* (base + suffix + item: merge adds the suffixes '_x' and '_y')
Col(name) == [base |-> name, suffix |-> "", item |-> <<>>]

Suffixed(name, suffix) == [base |-> name, suffix |-> suffix, item |-> <<>>]

DummyName(column_name, value) == [base |-> column_name, suffix |-> "_", item |-> value]

Range(f) == {f[i] : i \in DOMAIN f}

RECURSIVE SelectIdx(_, _, _)
\* the subsequence of s at the positions i with keep[i]
SelectIdx(s, keep, i) ==
    IF i > Len(s) THEN <<>>
    ELSE (IF keep[i] THEN <<s[i]>> ELSE <<>>) \o SelectIdx(s, keep, i + 1)

HasCol(df, c) == \E j \in 1..Len(df.cols) : df.cols[j] = c

ColPos(df, c) == CHOOSE j \in 1..Len(df.cols) : df.cols[j] = c

\* row[c]
At(df, row, c) == row[ColPos(df, c)]

\* df[c]: the cells of a column, in row order
Column(df, c) == [i \in 1..Len(df.rows) |-> df.rows[i][ColPos(df, c)]]

\* df[c] = values: overwrites the column in place or appends a new last column
SetCol(df, c, values) ==
    IF HasCol(df, c)
    THEN [df EXCEPT !.rows = [i \in 1..Len(df.rows) |->
                                 [df.rows[i] EXCEPT ![ColPos(df, c)] = values[i]]]]
    ELSE [df EXCEPT !.cols = Append(df.cols, c),
                    !.rows = [i \in 1..Len(df.rows) |-> Append(df.rows[i], values[i])]]

\* df.drop(columns = names); KeyError when a name is no column of df
CanDrop(df, names) == \A k \in 1..Len(names) : HasCol(df, names[k])

DropCols(df, names) ==
    LET keep == [j \in 1..Len(df.cols) |-> df.cols[j] \notin Range(names)]
    IN  [df EXCEPT !.cols = SelectIdx(df.cols, keep, 1),
                   !.rows = [i \in 1..Len(df.rows) |-> SelectIdx(df.rows[i], keep, 1)]]

\* df.dropna(subset = [c]): the rows whose cell in c is not missing, labels kept
DropNa(df, c) ==
    LET keep == [i \in 1..Len(df.rows) |-> ~isnull(At(df, df.rows[i], c))]
    IN  [df EXCEPT !.idx = SelectIdx(df.idx, keep, 1),
                   !.rows = SelectIdx(df.rows, keep, 1)]

RECURSIVE RatSum(_)
RatSum(s) == IF s = <<>> THEN Num(0) ELSE RatAdd(Head(s), RatSum(Tail(s)))

NotNull(s) == SelectIdx(s, [i \in 1..Len(s) |-> ~isnull(s[i])], 1)

\* Series.mean(): the mean of the values that are not missing, NaN when none is
Mean(s) ==
    LET v == NotNull(s)
    IN  IF v = <<>> THEN NaN ELSE RatMul(RatSum(v), Rat(1, Len(v)))

Count(s, x) == Cardinality({i \in 1..Len(s) : s[i] = x})

\* Series.mode()[0]: the most frequent value that is not missing, the smallest
\* of them on a tie (mode() returns its values sorted); with no such value
\* mode() is empty and [0] raises
Mode0(s) ==
    LET v == NotNull(s)
        best == {x \in Range(v) : \A y \in Range(v) : Count(v, y) <= Count(v, x)}
    IN  IF v = <<>> THEN Raise
        ELSE CHOOSE x \in best : \A y \in best : RatLe(x, y)

\* Series.fillna(value)
FillNa(s, value) == [i \in 1..Len(s) |-> IF isnull(s[i]) THEN value ELSE s[i]]

\* Series.unique(): the distinct values in order of first appearance
RECURSIVE Unique(_, _)
Unique(s, seen) ==
    IF s = <<>> THEN seen
    ELSE Unique(Tail(s), IF Head(s) \in Range(seen) THEN seen ELSE Append(seen, Head(s)))

(***************************************************************************)
(* Helper functions for dataset cleaning                                   *)
(***************************************************************************)
\* row[c].split('-')[k - 1] converted by int(); raises when the cell is no str
\* (AttributeError), has fewer than k pieces (IndexError) or the piece is no
\* integer (ValueError)
DatePart(cell, k) ==
    IF cell.t # "str" THEN Raise
    ELSE LET parts == Split(cell.s, "-")
         IN  IF Len(parts) < k THEN Raise ELSE PyInt(parts[k])

\* takes the day for the month
get_month_from_date_day(df, row) == DatePart(At(df, row, Col("date")), 3)

get_month_from_date(df, row) == DatePart(At(df, row, Col("date")), 2)

get_year_from_date(df, row) == DatePart(At(df, row, Col("date")), 1)

get_host_since_year(df, row) ==
    LET host_since == DatePart(At(df, row, Col("host_since")), 1)
    IN  IF host_since.t = "raise" THEN NaN ELSE host_since

ListChars == {"[", "]", "'", "\"", "{", "}"}

\* the pieces of a string-encoded list
ListValues(chars) == Split(RemoveChars(chars, ListChars), ",")

get_val_from_list(df, row, column_name, value) ==
    LET cell == At(df, row, Col(column_name))
    IN  IF cell.t # "str" THEN Num(0)
        ELSE IF value \in Range(ListValues(cell.s)) THEN Num(1) ELSE Num(0)

\* takes a missing fee for no fee
get_extra_people_fee_missing(df, row) ==
    IF At(df, row, Col("extra_people")) \in {Str(<<"$", "0", ".", "0", "0">>), NaN} THEN Num(0)
    ELSE Num(1)

get_extra_people_fee(df, row) ==
    IF At(df, row, Col("extra_people")) = Str(<<"$", "0", ".", "0", "0">>) THEN Num(0)
    ELSE Num(1)

max_dummies_num == 10

RECURSIVE Concat(_)
Concat(ss) == IF ss = <<>> THEN <<>> ELSE Head(ss) \o Concat(Tail(ss))

Reverse(s) == [i \in 1..Len(s) |-> s[Len(s) + 1 - i]]

\* value_dict of split_list_into_columns: its keys in insertion order, and the
\* number each key ends with (0 at its first occurrence, then one more each time)
DictKeys(uniques) == Unique(Concat([i \in 1..Len(uniques) |-> ListValues(uniques[i].s)]), <<>>)

DictCount(uniques, value) ==
    Count(Concat([i \in 1..Len(uniques) |-> ListValues(uniques[i].s)]), value) - 1

\* value_dict.items(): insertion order, or another order of the interpreter's
\* choosing (Python 3.5: a dict is unordered)
DictItems(uniques, order) ==
    IF order = "insertion" THEN DictKeys(uniques) ELSE Reverse(DictKeys(uniques))

RECURSIVE SortedByCount(_, _, _)
\* sorted(items, key = count, reverse = True): stable, so items with equal
\* counts keep the order of items
SortedByCount(items, uniques, c) ==
    LET level == SelectIdx(items, [i \in 1..Len(items) |-> DictCount(uniques, items[i]) = c], 1)
    IN  IF c < 0 THEN <<>> ELSE level \o SortedByCount(items, uniques, c - 1)

values_sorted(uniques, order) ==
    LET items == DictItems(uniques, order)
    IN  SortedByCount(items, uniques, Len(Concat([i \in 1..Len(uniques) |-> ListValues(uniques[i].s)])))

Prefix(s, k) == SubSeq(s, 1, IF Len(s) < k THEN Len(s) ELSE k)

\* the values that get a dummy column, in the order the columns are created
DummyValues(df, column_name, order) ==
    Prefix(values_sorted(Unique(Column(df, Col(column_name)), <<>>), order), max_dummies_num)

RECURSIVE AddDummies(_, _, _)
AddDummies(df, column_name, values) ==
    IF values = <<>> THEN df
    ELSE AddDummies(SetCol(df, DummyName(column_name, Head(values)),
                           [i \in 1..Len(df.rows) |->
                               get_val_from_list(df, df.rows[i], column_name, Head(values))]),
                    column_name, Tail(values))

\* unique_value.replace raises AttributeError for a value that is no str
SplitRaises(df, column_name) ==
    \E i \in 1..Len(df.rows) : At(df, df.rows[i], Col(column_name)).t # "str"

split_list_into_columns(df, column_name, order) ==
    AddDummies(df, column_name, DummyValues(df, column_name, order))

(***************************************************************************)
(* The two input tables: the columns clean_dataset names                   *)
(***************************************************************************)
Cols(names) == [k \in 1..Len(names) |-> Col(names[k])]

CalendarColumns == Cols(<<"listing_id", "date", "available", "price">>)

\* the columns of the listings table that clean_dataset only drops
ListingDropped == <<
    "host_id", "host_location", "host_acceptance_rate",
    "host_neighbourhood", "host_total_listings_count", "weekly_price",
    "monthly_price", "security_deposit", "cleaning_fee",
    "calendar_updated", "listing_url", "last_scraped", "scrape_id", "name",
    "summary", "space", "description", "experiences_offered", "street",
    "neighbourhood", "neighbourhood_cleansed", "zipcode",
    "neighborhood_overview", "notes", "transit", "thumbnail_url",
    "medium_url", "picture_url", "xl_picture_url", "host_url", "host_name",
    "host_about", "host_thumbnail_url", "host_picture_url", "city",
    "state", "market", "smart_location", "country_code", "country",
    "latitude", "longitude", "is_location_exact", "square_feet",
    "has_availability", "availability_30", "availability_60",
    "availability_90", "availability_365", "calendar_last_scraped",
    "first_review", "last_review", "requires_license", "license",
    "jurisdiction_names", "reviews_per_month" >>

\* the columns of the listings table that clean_dataset reads
ListingUsed == <<
    "host_since", "host_response_rate", "host_listings_count",
    "host_verifications", "bathrooms", "bedrooms", "beds", "amenities",
    "price", "extra_people", "review_scores_rating",
    "review_scores_accuracy", "review_scores_cleanliness",
    "review_scores_checkin", "review_scores_communication",
    "review_scores_location", "review_scores_value" >>

\* columns of the listings table that clean_dataset passes on as they are,
\* and that the notebook reads afterwards
ListingKept == <<"accommodates", "neighbourhood_group_cleansed">>

ListingColumns == Cols(<<"id">> \o ListingUsed \o ListingKept \o ListingDropped)

columns_to_drop == Cols(<<"available">> \o ListingDropped) \o <<Suffixed("price", "_y")>>

review_scores_columns == Cols(<<
    "review_scores_rating", "review_scores_accuracy",
    "review_scores_cleanliness", "review_scores_checkin",
    "review_scores_communication", "review_scores_location",
    "review_scores_value" >>)

(***************************************************************************)
(* clean_dataset, statement by statement                                   *)
(***************************************************************************)
\* the outcome of a block of statements: the table, or an exception
Returns(d) == [ok |-> TRUE, df |-> d]

Raises(d) == [ok |-> FALSE, df |-> d]

AnyRaise(s) == \E i \in 1..Len(s) : s[i].t = "raise"

\* listings_df.rename(columns = {'id': 'listing_id'})
Rename(df, old, new) ==
    [df EXCEPT !.cols = [j \in 1..Len(df.cols) |-> IF df.cols[j] = old THEN new ELSE df.cols[j]]]

\* pairs the left row with every right row
MatchesFromAny(left, right, i, j) == [k \in 1..Len(right.rows) |-> <<i, k>>]

RECURSIVE MatchesFrom(_, _, _, _)
\* the pairs <<i, j>> for one left row i, in the order of the right rows
MatchesFrom(left, right, i, j) ==
    IF j > Len(right.rows) THEN <<>>
    ELSE (IF At(left, left.rows[i], Col("listing_id")) = At(right, right.rows[j], Col("listing_id"))
          THEN <<(<<i, j>>)>> ELSE <<>>) \o MatchesFrom(left, right, i, j + 1)

RECURSIVE JoinPairs(_, _, _)
\* an inner join keeps the order of the left keys
JoinPairs(left, right, i) ==
    IF i > Len(left.rows) THEN <<>>
    ELSE MatchesFrom(left, right, i, 1) \o JoinPairs(left, right, i + 1)

\* pd.merge(left, right, on = 'listing_id'): inner join; a column other than
\* the key that both tables have gets the suffix '_x' (left) and '_y' (right)
Merge(left, right) ==
    LET key == Col("listing_id")
        pairs == JoinPairs(left, right, 1)
        both(c) == c # key /\ HasCol(left, c) /\ HasCol(right, c)
        keepR == [j \in 1..Len(right.cols) |-> right.cols[j] # key]
        lcols == [j \in 1..Len(left.cols) |->
                     IF both(left.cols[j]) THEN Suffixed(left.cols[j].base, "_x") ELSE left.cols[j]]
        rcols == [j \in 1..Len(right.cols) |->
                     IF both(right.cols[j]) THEN Suffixed(right.cols[j].base, "_y") ELSE right.cols[j]]
    IN  [cols |-> lcols \o SelectIdx(rcols, keepR, 1),
         idx |-> [k \in 1..Len(pairs) |-> k - 1],
         rows |-> [k \in 1..Len(pairs) |->
                      left.rows[pairs[k][1]] \o SelectIdx(right.rows[pairs[k][2]], keepR, 1)]]

\* the caller's two tables after lines 285-287, had rename been called with
\* inplace = True
CallerTablesInplace(listings, calendar) ==
    [listings |-> Rename(listings, Col("id"), Col("listing_id")), calendar |-> calendar]

\* the caller's two tables after lines 285-287: DataFrame.rename without
\* inplace and pd.merge return new tables and leave their operands as they
\* are; line 286 binds the new table to the local name listings_df only
CallerTables(listings, calendar) == [listings |-> listings, calendar |-> calendar]

\* lines 285-287
MergeBlock(listings, calendar) ==
    Returns(Merge(calendar, Rename(listings, Col("id"), Col("listing_id"))))

\* lines 289-303
DropBlock(d) ==
    IF CanDrop(d, columns_to_drop) THEN Returns(DropCols(d, columns_to_drop)) ELSE Raises(d)

\* lines 305-308
DateBlock(d) ==
    LET month == [i \in 1..Len(d.rows) |-> get_month_from_date(d, d.rows[i])]
        year == [i \in 1..Len(d.rows) |-> get_year_from_date(d, d.rows[i])]
    IN  IF AnyRaise(month) \/ AnyRaise(year) THEN Raises(d)
        ELSE Returns(DropCols(SetCol(SetCol(d, Col("month"), month), Col("year"), year),
                              <<Col("date")>>))

\* lines 310-311
DropNaBlock(d) == Returns(DropNa(d, Suffixed("price", "_x")))

\* lines 313-316: the pattern '[$, ]' is a regular expression (a character class)
PriceBlock(d) ==
    LET price == [i \in 1..Len(d.rows) |->
                     PyFloat(RemoveChars(AsTypeStr(At(d, d.rows[i], Suffixed("price", "_x"))),
                                         {"$", ",", " "}))]
    IN  IF AnyRaise(price) THEN Raises(d)
        ELSE Returns(DropCols(SetCol(d, Col("price"), price), <<Suffixed("price", "_x")>>))

\* fills with the most frequent year instead of the mean
HostSinceBlockMode(d) ==
    LET year == [i \in 1..Len(d.rows) |-> get_host_since_year(d, d.rows[i])]
    IN  Returns(DropCols(SetCol(d, Col("host_since_year"),
                                FillNa(year, IF NotNull(year) = <<>> THEN NaN ELSE Mode0(year))),
                         <<Col("host_since")>>))

\* lines 318-321
HostSinceBlock(d) ==
    LET year == [i \in 1..Len(d.rows) |-> get_host_since_year(d, d.rows[i])]
    IN  Returns(DropCols(SetCol(d, Col("host_since_year"), FillNa(year, Mean(year))),
                         <<Col("host_since")>>))

qcut_q == 5

\* the k-th of the q + 1 quantiles 0, 1/q, ..., 1 of the sorted values a, by
\* linear interpolation between the two nearest; NaN when there is no value
Quantile(a, k) ==
    LET pos == k * (Len(a) - 1)
        lo == pos \div qcut_q
        rem == pos % qcut_q
    IN  IF a = <<>> THEN NaN
        ELSE IF rem = 0 THEN a[lo + 1]
             ELSE RatAdd(a[lo + 1], RatMul(RatSub(a[lo + 2], a[lo + 1]), Rat(rem, qcut_q)))

\* pd.qcut(x, 5, labels = False, duplicates = 'drop'): the bin edges are the
\* distinct quantiles; a value in (edge k, edge k+1] gets k - 1 (counting the
\* edges from 1), the lowest edge itself gets 0, and a value that falls in no
\* bin, or is missing, gets NaN
QcutBins(x) ==
    LET a == SortSeq(NotNull(x), RatLt)
    IN  Unique([k \in 1..(qcut_q + 1) |-> Quantile(a, k - 1)], <<>>)

QcutOne(v, bins) ==
    LET below == Cardinality({b \in 1..Len(bins) : ~isnull(bins[b]) /\ RatLt(bins[b], v)})
        ids == IF v = bins[1] THEN 1 ELSE below
    IN  IF isnull(v) \/ ids = Len(bins) \/ ids = 0 THEN NaN ELSE Num(ids - 1)

Qcut(x) == [i \in 1..Len(x) |-> QcutOne(x[i], QcutBins(x))]

\* lines 323-329
ResponseRateBlock(d) ==
    LET num == [i \in 1..Len(d.rows) |->
                   PyFloat(RemoveChars(AsTypeStr(At(d, d.rows[i], Col("host_response_rate"))),
                                       {"%"}))]
        filled == FillNa(num, Mean(num))
    IN  IF AnyRaise(num) THEN Raises(d)
        ELSE Returns(DropCols(SetCol(SetCol(d, Col("host_response_rate_num"), filled),
                                     Col("host_response_rate_buckets"), Qcut(filled)),
                              <<Col("host_response_rate"), Col("host_response_rate_num")>>))

\* df[c].fillna(df[c].mean(), inplace = True)
FillMean(d, c) == SetCol(d, c, FillNa(Column(d, c), Mean(Column(d, c))))

\* lines 331-332
ListingsCountBlock(d) == Returns(FillMean(d, Col("host_listings_count")))

\* lines 334-336 and 343-345
SplitBlock(d, column_name, order) ==
    IF SplitRaises(d, column_name) THEN Raises(d)
    ELSE Returns(DropCols(split_list_into_columns(d, column_name, order), <<Col(column_name)>>))

\* df[c] = df[c].fillna(df[c].mode()[0])
FillMode(d, c) == SetCol(d, c, FillNa(Column(d, c), Mode0(Column(d, c))))

ModeRaises(d, c) == Mode0(Column(d, c)).t = "raise"

\* lines 338-341
ModeBlock(d) ==
    IF \/ ModeRaises(d, Col("bathrooms"))
       \/ ModeRaises(d, Col("bedrooms"))
       \/ ModeRaises(d, Col("beds"))
    THEN Raises(d)
    ELSE Returns(FillMode(FillMode(FillMode(d, Col("bathrooms")), Col("bedrooms")), Col("beds")))

\* lines 347-349
ExtraPeopleBlock(d) ==
    Returns(DropCols(SetCol(d, Col("extra_people_fee"),
                            [i \in 1..Len(d.rows) |-> get_extra_people_fee(d, d.rows[i])]),
                     <<Col("extra_people")>>))

RECURSIVE FillMeans(_, _)
FillMeans(d, columns) ==
    IF columns = <<>> THEN d ELSE FillMeans(FillMean(d, Head(columns)), Tail(columns))

\* lines 351-359
ReviewScoresBlock(d) == Returns(FillMeans(d, review_scores_columns))

\* the next block runs on the table of the block before it, unless that raised
Then(out, Block(_)) == IF out.ok THEN Block(out.df) ELSE out

\* lines 272-359: clean_dataset as a whole, its blocks in the order of the
\* source, in an interpreter whose dict iterates in the given order
clean_dataset(listings, calendar, order) ==
    LET merged == MergeBlock(listings, calendar)
        dropped == Then(merged, DropBlock)
        dated == Then(dropped, DateBlock)
        priced == Then(Then(dated, DropNaBlock), PriceBlock)
        hosted == Then(Then(Then(priced, HostSinceBlock), ResponseRateBlock), ListingsCountBlock)
        verified == Then(hosted, LAMBDA d : SplitBlock(d, "host_verifications", order))
        moded == Then(verified, ModeBlock)
        amenities == Then(moded, LAMBDA d : SplitBlock(d, "amenities", order))
    IN  Then(Then(amenities, ExtraPeopleBlock), ReviewScoresBlock)

(***************************************************************************)
(* The notebook cell "turn categorical columns into dummies"               *)
(***************************************************************************)
\* the characters of the model's category names, in the order of their code
\* points (the order in which Python compares str)
Alphabet == <<"B", "D", "a", "d", "l", "n", "o", "r", "t", "w">>

CodePoint(c) == CHOOSE i \in 1..Len(Alphabet) : Alphabet[i] = c

RECURSIVE CharsLess(_, _)
CharsLess(a, b) ==
    IF b = <<>> THEN FALSE
    ELSE IF a = <<>> THEN TRUE
    ELSE IF Head(a) = Head(b) THEN CharsLess(Tail(a), Tail(b))
    ELSE CodePoint(Head(a)) < CodePoint(Head(b))

StrLess(x, y) == CharsLess(x.s, y.s)

\* a column read from the csv file has dtype object when a value of it is a
\* str (a column without any value is float64); merge, drop and dropna keep
\* the dtype of a column they pass on
dtype_object(listings, c) ==
    /\ HasCol(listings, c)
    /\ \E i \in 1..Len(listings.rows) : At(listings, listings.rows[i], c).t = "str"

\* list(df.select_dtypes(include = ['object']).columns): every column that
\* clean_dataset makes is a column of numbers, so the columns of dtype object
\* are among those it passes on
cat_columns(d, listings) ==
    SelectIdx(d.cols, [j \in 1..Len(d.cols) |->
                          /\ d.cols[j] \in Range(Cols(ListingKept))
                          /\ dtype_object(listings, d.cols[j])], 1)

\* the levels of get_dummies(..., dummy_na = True): the distinct values that
\* are not missing, sorted, and NaN as the last level
Levels(values) == SortSeq(Unique(NotNull(values), <<>>), StrLess) \o <<NaN>>

LevelName(col, level) ==
    DummyName(col.base, IF isnull(level) THEN <<"n", "a", "n">> ELSE level.s)

RECURSIVE AddLevels(_, _, _, _)
AddLevels(d, col, values, levels) ==
    IF levels = <<>> THEN d
    ELSE AddLevels(SetCol(d, LevelName(col, Head(levels)),
                          [i \in 1..Len(values) |->
                              IF values[i] = Head(levels) THEN Num(1) ELSE Num(0)]),
                   col, values, Tail(levels))

\* pd.concat([df.drop(col, axis = 1), pd.get_dummies(df[col], prefix = col,
\* prefix_sep = '_', drop_first = True, dummy_na = True)], axis = 1):
\* drop_first leaves out the column of the first level
get_dummies(d, col) ==
    AddLevels(DropCols(d, <<col>>), col, Column(d, col), Tail(Levels(Column(d, col))))

RECURSIVE EncodeAll(_, _)
EncodeAll(d, columns) ==
    IF columns = <<>> THEN d ELSE EncodeAll(get_dummies(d, Head(columns)), Tail(columns))

\* lines 595-601
OneHotCell(d, listings) ==
    DropCols(EncodeAll(d, cat_columns(d, listings)), <<Col("listing_id"), Col("year")>>)

(***************************************************************************)
(* Input values                                                            *)
(***************************************************************************)
\* "2016-07-04"
D_20160704 == <<"2", "0", "1", "6", "-", "0", "7", "-", "0", "4">>

\* "2017-11-30"
D_20171130 == <<"2", "0", "1", "7", "-", "1", "1", "-", "3", "0">>

\* "2016/07/04"
D_SLASHES == <<"2", "0", "1", "6", "/", "0", "7", "/", "0", "4">>

\* "$150.00"
P_150 == <<"$", "1", "5", "0", ".", "0", "0">>

\* "$1,250.50"
P_1250_50 == <<"$", "1", ",", "2", "5", "0", ".", "5", "0">>

\* "-$5.00"
P_NEGATIVE == <<"-", "$", "5", ".", "0", "0">>

\* "abc"
P_WORD == <<"a", "b", "c">>

\* "nan"
P_NAN == <<"n", "a", "n">>

\* "$85.00"
P_LISTING == <<"$", "8", "5", ".", "0", "0">>

\* "2011-08-11"
HS_2011 == <<"2", "0", "1", "1", "-", "0", "8", "-", "1", "1">>

\* "2014-03-02"
HS_2014 == <<"2", "0", "1", "4", "-", "0", "3", "-", "0", "2">>

\* "unknown"
HS_WORD == <<"u", "n", "k", "n", "o", "w", "n">>

\* "96%"
RR_96 == <<"9", "6", "%">>

\* "100%"
RR_100 == <<"1", "0", "0", "%">>

\* "N/A"
RR_WORD == <<"N", "/", "A">>

\* "['email', 'phone']"
HV_EMAIL_PHONE == <<"[", "'", "e", "m", "a", "i", "l", "'", ",", " ", "'", "p", "h", "o", "n", "e", "'", "]">>

\* "['phone']"
HV_PHONE == <<"[", "'", "p", "h", "o", "n", "e", "'", "]">>

\* "{TV,Wifi}"
AM_TV_WIFI == <<"{", "T", "V", ",", "W", "i", "f", "i", "}">>

\* "{Wifi}"
AM_WIFI == <<"{", "W", "i", "f", "i", "}">>

\* "{a,b,c,d,e,f,g,h,i,j}"
AM_TEN == <<"{", "a", ",", "b", ",", "c", ",", "d", ",", "e", ",", "f", ",", "g", ",", "h", ",", "i", ",", "j", "}">>

\* "{k,a}"
AM_K_A == <<"{", "k", ",", "a", "}">>

\* "{}"
AM_NONE == <<"{", "}">>

\* "$5.00"
EP_5 == <<"$", "5", ".", "0", "0">>

\* "$0.00"
EP_0_00 == <<"$", "0", ".", "0", "0">>

\* "$0"
EP_0 == <<"$", "0">>

DatePool == {Str(D_20160704), Str(D_20171130), Str(D_SLASHES), NaN}

\* "Ballard"
N_BALLARD == <<"B", "a", "l", "l", "a", "r", "d">>

\* "Downtown"
N_DOWNTOWN == <<"D", "o", "w", "n", "t", "o", "w", "n">>

PricePool == {Str(P_150), Str(P_1250_50), Str(P_NEGATIVE), Str(P_WORD), Str(P_NAN), NaN}


\* the value of a column that clean_dataset only drops
Filler == Str(<<"x">>)

BaseListing ==
    [host_since |-> Str(HS_2011), host_response_rate |-> Str(RR_96),
     host_listings_count |-> Num(1), host_verifications |-> Str(HV_EMAIL_PHONE),
     bathrooms |-> Num(1), bedrooms |-> Num(1), beds |-> Num(1),
     amenities |-> Str(AM_TV_WIFI), price |-> Str(P_LISTING), extra_people |-> Str(EP_5),
     review_scores_rating |-> Num(10), review_scores_accuracy |-> Num(10),
     review_scores_cleanliness |-> Num(10), review_scores_checkin |-> Num(10),
     review_scores_communication |-> Num(10), review_scores_location |-> Num(10),
     review_scores_value |-> Num(10),
     accommodates |-> Num(2), neighbourhood_group_cleansed |-> Str(N_DOWNTOWN)]

\* listings that differ from BaseListing in the columns of one block of clean_dataset
HostListings ==
    {[BaseListing EXCEPT !.host_since = v] : v \in {Str(HS_2011), Str(HS_2014), Str(HS_WORD), NaN}}
    \cup {[BaseListing EXCEPT !.host_response_rate = v] : v \in {Str(RR_100), Str(RR_WORD), NaN}}

ListListings ==
    {[BaseListing EXCEPT !.host_verifications = v] : v \in {Str(HV_EMAIL_PHONE), Str(HV_PHONE), NaN}}
    \cup {[BaseListing EXCEPT !.amenities = v] :
              v \in {Str(AM_WIFI), Str(AM_TEN), Str(AM_K_A), Str(AM_NONE)}}

RoomListings ==
    {[BaseListing EXCEPT ![c] = v] :
         c \in {"bathrooms", "bedrooms", "beds"}, v \in {Num(1), Num(2), NaN}}

ScoreListings ==
    {[BaseListing EXCEPT !.host_listings_count = v] : v \in {Num(1), Num(3), NaN}}
    \cup {[BaseListing EXCEPT ![c.base] = NaN] : c \in Range(review_scores_columns)}
    \cup {[BaseListing EXCEPT !.review_scores_rating = Num(9)]}

FeeListings ==
    {[BaseListing EXCEPT !.extra_people = v] : v \in {Str(EP_5), Str(EP_0_00), Str(EP_0), NaN}}

CategoryListings ==
    {[BaseListing EXCEPT !.neighbourhood_group_cleansed = v] :
         v \in {Str(N_BALLARD), Str(N_DOWNTOWN), NaN}}

ListingGroups == {HostListings, ListListings, RoomListings, ScoreListings, FeeListings}

\* a row of the listings table
ListingRow(id, fields) ==
    [j \in 1..Len(ListingColumns) |->
        IF ListingColumns[j] = Col("id") THEN Num(id)
        ELSE IF ListingColumns[j].base \in DOMAIN fields THEN fields[ListingColumns[j].base]
             ELSE Filler]

\* the listings table with the listings ls, their ids 1, 2, ...
ListingsTable(ls) ==
    [cols |-> ListingColumns,
     idx |-> [i \in 1..Len(ls) |-> i - 1],
     rows |-> [i \in 1..Len(ls) |-> ListingRow(i, ls[i])]]

\* a row of the calendar table
CalendarRow(id, date, price) == <<Num(id), date, Str(<<"t">>), price>>

CalendarTable(rows) ==
    [cols |-> CalendarColumns, idx |-> [i \in 1..Len(rows) |-> i - 1], rows |-> rows]

MaxCalendarRows == 2

MaxListings == 2

MaxHosts == 3

SeqsUpTo(S, k) == UNION {[1..m -> S] : m \in 0..k}

\* calendars of any rows, over two listings that clean_dataset accepts; 3 is
\* a listing_id that no listing has
AnyCalendarRows ==
    {CalendarRow(1, Str(D_20160704), p) : p \in PricePool}
    \cup {CalendarRow(1, dt, p) : dt \in DatePool, p \in {Str(P_150), NaN}}
    \cup {CalendarRow(2, Str(D_20160704), p) : p \in {Str(P_150), NaN}}
    \cup {CalendarRow(3, Str(D_20160704), Str(P_150))}

CalendarInputs ==
    {[listings |-> <<BaseListing, [BaseListing EXCEPT !.host_since = Str(HS_2014)]>>,
      calendar |-> rows,
      order |-> "insertion"] : rows \in SeqsUpTo(AnyCalendarRows, MaxCalendarRows)}

\* calendars for m listings: a row for every listing; the same with a second
\* row for the last listing; the same with no price in the last listing's row
GoodRow(id) == CalendarRow(id, Str(D_20160704), Str(P_150))

ListingCalendars(m) ==
    {[i \in 1..m |-> GoodRow(i)],
     [i \in 1..(m + 1) |-> GoodRow(IF i > m THEN m ELSE i)],
     [i \in 1..m |-> IF i = m THEN CalendarRow(i, Str(D_20160704), NaN) ELSE GoodRow(i)]}

DictOrders == {"insertion", "reverse"}

\* the order of a dict matters to split_list_into_columns only
InputsFor(G, m) ==
    {[listings |-> ls, calendar |-> rows, order |-> o] :
        ls \in [1..m -> G],
        rows \in ListingCalendars(m),
        o \in IF G = ListListings THEN DictOrders ELSE {"insertion"}}

ListingInputs == UNION {InputsFor(G, m) : G \in ListingGroups, m \in 1..MaxListings}

FeeInputs == UNION {InputsFor(FeeListings, m) : m \in 1..MaxListings}

HostSinceListings ==
    {[BaseListing EXCEPT !.host_since = v] : v \in {Str(HS_2011), Str(HS_2014), Str(HS_WORD), NaN}}

HostSinceInputs == UNION {InputsFor(HostSinceListings, m) : m \in 1..MaxHosts}

MaxCategoryListings == 3

CategoryInputs == UNION {InputsFor(CategoryListings, m) : m \in 1..MaxCategoryListings}

(***************************************************************************)
(* The state machine: one call clean_dataset(listings_df, calendar_df)     *)
(***************************************************************************)
VARIABLES
    listings_df,   \* the caller's listings table
    calendar_df,   \* the caller's calendar table
    dict_order,    \* the order in which this interpreter iterates a dict
    df,            \* the local table df of clean_dataset
    pc,            \* the block of clean_dataset to run; "done" after return df,
                   \* "failed" after an exception
    raised,        \* the block that raised the exception, "" when none did
    notebook_df    \* the notebook's table df (line 368) after the cell that
                   \* turns categorical columns into dummies

vars == <<listings_df, calendar_df, dict_order, df, pc, raised, notebook_df>>

EmptyTable == [cols |-> <<>>, idx |-> <<>>, rows |-> <<>>]

\* the call clean_dataset(listings_df, calendar_df) on one of inputs (the
\* listings and the calendar rows of the two tables)
Call(inputs) ==
    /\ \E in \in inputs :
          /\ listings_df = ListingsTable(in.listings)
          /\ calendar_df = CalendarTable(in.calendar)
          /\ dict_order = in.order
    /\ df = EmptyTable
    /\ pc = "merge"
    /\ raised = ""
    /\ notebook_df = EmptyTable

Init == Call(CalendarInputs \cup ListingInputs)

InitCalendar == Call(CalendarInputs)

InitFee == Call(FeeInputs)

InitHostSince == Call(HostSinceInputs)

InitCategory == Call(CategoryInputs)

\* a block of statements: it ends with the next block to run, or raises
Step(next, out) ==
    /\ pc' = IF out.ok THEN next ELSE "failed"
    /\ raised' = IF out.ok THEN raised ELSE pc
    /\ df' = out.df
    /\ UNCHANGED <<listings_df, calendar_df, dict_order, notebook_df>>

\* DataFrame.apply(f, axis = 1) of a table with no rows calls f with an empty
\* Series; when that raises, apply returns a table, which cannot be assigned
\* to one column. pd.qcut of no values has no quantiles. What these do is left
\* open: they raise or they go on.
OnEmpty(d, out) == IF d.rows = <<>> THEN {out, Raises(d)} ELSE {out}

\* lines 285-287 work on the caller's two tables
MergeTables ==
    /\ pc = "merge"
    /\ LET out == MergeBlock(listings_df, calendar_df)
           caller == CallerTables(listings_df, calendar_df)
       IN  /\ pc' = IF out.ok THEN "drop" ELSE "failed"
           /\ raised' = IF out.ok THEN raised ELSE pc
           /\ df' = out.df
           /\ listings_df' = caller.listings
           /\ calendar_df' = caller.calendar
    /\ UNCHANGED <<dict_order, notebook_df>>

DropIrrelevant ==
    /\ pc = "drop"
    /\ Step("date", DropBlock(df))

ConvertDate ==
    /\ pc = "date"
    /\ \E out \in OnEmpty(df, DateBlock(df)) : Step("dropna", out)

DropNaPrice ==
    /\ pc = "dropna"
    /\ Step("price", DropNaBlock(df))

ConvertPrice ==
    /\ pc = "price"
    /\ Step("host_since", PriceBlock(df))

HostSince ==
    /\ pc = "host_since"
    /\ Step("response_rate", HostSinceBlock(df))

HostResponseRate ==
    /\ pc = "response_rate"
    /\ \E out \in OnEmpty(df, ResponseRateBlock(df)) : Step("listings_count", out)

HostListingsCount ==
    /\ pc = "listings_count"
    /\ Step("verifications", ListingsCountBlock(df))

HostVerifications ==
    /\ pc = "verifications"
    /\ Step("mode", SplitBlock(df, "host_verifications", dict_order))

FillModes ==
    /\ pc = "mode"
    /\ Step("amenities", ModeBlock(df))

Amenities ==
    /\ pc = "amenities"
    /\ Step("extra_people", SplitBlock(df, "amenities", dict_order))

ExtraPeople ==
    /\ pc = "extra_people"
    /\ Step("review_scores", ExtraPeopleBlock(df))

ReviewScores ==
    /\ pc = "review_scores"
    /\ Step("done", ReviewScoresBlock(df))

\* line 368 and lines 595-601, on the table that clean_dataset returned
OneHotEncode ==
    /\ pc = "done"
    /\ pc' = "encoded"
    /\ notebook_df' = OneHotCell(df, listings_df)
    /\ UNCHANGED <<listings_df, calendar_df, dict_order, df, raised>>

Next ==
    \/ MergeTables
    \/ DropIrrelevant
    \/ ConvertDate
    \/ DropNaPrice
    \/ ConvertPrice
    \/ HostSince
    \/ HostResponseRate
    \/ HostListingsCount
    \/ HostVerifications
    \/ FillModes
    \/ Amenities
    \/ ExtraPeople
    \/ ReviewScores
    \/ OneHotEncode

Spec == Init /\ [][Next]_vars

\* the same call on the inputs that vary the calendar, the extra-person fee,
\* the host_since date
SpecCalendar == InitCalendar /\ [][Next]_vars

SpecFee == InitFee /\ [][Next]_vars

SpecHostSince == InitHostSince /\ [][Next]_vars

SpecCategory == InitCategory /\ [][Next]_vars

(***************************************************************************)
(* Properties of clean_dataset                                             *)
(*                                                                         *)
(* They are stated against the two input tables: the row of the output     *)
(* with label n comes from the n-th pair (counting from 0) of a calendar   *)
(* row and a listing row with the same listing identifier.                 *)
(***************************************************************************)
Done == pc = "done"

OutRows == 1..Len(df.rows)

OutCell(k, c) == df.rows[k][ColPos(df, c)]

InputCell(table, i, name) == table.rows[i][ColPos(table, Col(name))]

Matching ==
    {p \in (1..Len(calendar_df.rows)) \X (1..Len(listings_df.rows)) :
        InputCell(calendar_df, p[1], "listing_id") = InputCell(listings_df, p[2], "id")}

Earlier(q, p) == q[1] < p[1] \/ (q[1] = p[1] /\ q[2] < p[2])

Origin(k) ==
    CHOOSE p \in Matching : Cardinality({q \in Matching : Earlier(q, p)}) = df.idx[k]

CalendarCell(k, name) == InputCell(calendar_df, Origin(k)[1], name)

ListingCell(k, name) == InputCell(listings_df, Origin(k)[2], name)

\* the price strings that are no currency amount
NoAmount == {NaN, Str(P_WORD), Str(P_NAN)}

\* C1: on every pair of input tables on which clean_dataset returns, every
\* row of the returned table has a price that is non-null and non-negative.
C1_PriceNonNullNonNegative ==
    Done => \A k \in OutRows :
                /\ OutCell(k, Col("price")).t = "num"
                /\ OutCell(k, Col("price")).n >= 0

\* C2: a joined row whose price is missing or is no currency amount is left
\* out of the output silently: clean_dataset does not fail for it (neither in
\* the price conversion nor because no row is left) and returns the rows of
\* all other calendar rows.
C2_BadPriceRowIsDroppedSilently ==
    /\ raised # "price"
    /\ (pc = "failed" /\ df.rows = <<>>) => Matching = {}
    /\ Done => /\ \A k \in OutRows : CalendarCell(k, "price") \notin NoAmount
               /\ Len(df.rows) =
                     Cardinality({p \in Matching :
                                     InputCell(calendar_df, p[1], "price") \notin NoAmount})

\* C3: a date or a host response rate that cannot be parsed, in any joined
\* row, is not fatal: clean_dataset does not raise in the block that converts
\* the date or in the block that converts the rate.
C3_BadDateOrRateIsNotFatal ==
    ~(pc = "failed" /\ raised \in {"date", "response_rate"} /\ df.rows # <<>>)

\* the dummy columns of a list column, in the order of the table's columns
DummyColumns(column_name) ==
    SelectIdx(df.cols, [j \in 1..Len(df.cols) |->
                           df.cols[j].suffix = "_" /\ df.cols[j].base = column_name], 1)

DummyItems(column_name) ==
    [j \in 1..Len(DummyColumns(column_name)) |-> DummyColumns(column_name)[j].item]

\* the number of rows of the table whose list has the item
RowFrequency(column_name, item) ==
    Cardinality({k \in OutRows : item \in Range(ListValues(ListingCell(k, column_name).s))})

\* the items in the order in which the rows of the table first show them
FirstEncountered(column_name) ==
    Unique(Concat([k \in OutRows |-> ListValues(ListingCell(k, column_name).s)]), <<>>)

RECURSIVE ByRowFrequency(_, _, _)
ByRowFrequency(items, column_name, f) ==
    IF f < 0 THEN <<>>
    ELSE SelectIdx(items, [i \in 1..Len(items) |-> RowFrequency(column_name, items[i]) = f], 1)
         \o ByRowFrequency(items, column_name, f - 1)

MostFrequent(column_name) ==
    Prefix(ByRowFrequency(FirstEncountered(column_name), column_name, Len(df.rows)),
           max_dummies_num)

\* C4: each list column gets at most 10 dummy columns, for the 10 items most
\* frequent over all rows of the table, in descending frequency, equally
\* frequent items in the order of their first encounter (stated for an
\* interpreter whose dict keeps the insertion order).
C4_DummiesAreTheMostFrequentOverRows ==
    (Done /\ dict_order = "insertion") =>
        \A column_name \in {"host_verifications", "amenities"} :
            /\ Len(DummyItems(column_name)) <= max_dummies_num
            /\ DummyItems(column_name) = MostFrequent(column_name)

\* the items of the string-encoded lists of the model's inputs
ListItems(chars) ==
    CASE chars = HV_EMAIL_PHONE -> {<<"e", "m", "a", "i", "l">>, <<"p", "h", "o", "n", "e">>}
      [] chars = HV_PHONE -> {<<"p", "h", "o", "n", "e">>}
      [] chars = AM_TV_WIFI -> {<<"T", "V">>, <<"W", "i", "f", "i">>}
      [] chars = AM_WIFI -> {<<"W", "i", "f", "i">>}
      [] chars = AM_TEN -> {<<c>> : c \in {"a", "b", "c", "d", "e", "f", "g", "h", "i", "j"}}
      [] chars = AM_K_A -> {<<"k">>, <<"a">>}
      [] chars = AM_NONE -> {}

\* C5: in every output row every dummy column holds 0 or 1, and 1 exactly
\* when the row's list contains the column's item (the item taken without
\* the blanks around it).
C5_DummyIsOneIffListHasItem ==
    Done => \A k \in OutRows : \A j \in 1..Len(df.cols) :
                df.cols[j].suffix = "_" =>
                    /\ df.rows[k][j] \in {Num(0), Num(1)}
                    /\ df.rows[k][j] = Num(1) <=>
                          Strip(df.cols[j].item) \in ListItems(ListingCell(k, df.cols[j].base).s)

\* the extra-person fees of the model's inputs that are zero
ZeroFees == {Str(EP_0_00), Str(EP_0)}

ImputedColumns ==
    Cols(<<"bathrooms", "bedrooms", "beds", "host_listings_count">>) \o review_scores_columns

\* C7: after clean_dataset returns no row has a missing value in bathrooms,
\* bedrooms, beds, host_listings_count or a review_scores column, also when
\* such a column is missing in every row of the input.
C7_ImputedColumnsHaveNoMissing ==
    Done => \A k \in OutRows : \A j \in 1..Len(ImputedColumns) :
                ~isnull(OutCell(k, ImputedColumns[j]))

\* the year of the host_since dates of the model's inputs
HostSinceYear(cell) ==
    CASE cell = Str(HS_2011) -> Num(2011)
      [] cell = Str(HS_2014) -> Num(2014)
      [] OTHER -> NaN

\* the rows of the output whose host_since has a year
WithYear == {k \in OutRows : ~isnull(HostSinceYear(ListingCell(k, "host_since")))}

RECURSIVE SumOfYears(_)
SumOfYears(rows) ==
    IF rows = {} THEN 0
    ELSE LET k == CHOOSE x \in rows : TRUE
         IN  HostSinceYear(ListingCell(k, "host_since")).n + SumOfYears(rows \ {k})

\* C8: host_since_year is the year of the host_since date; where host_since
\* is missing or cannot be parsed it is the mean of host_since_year over the
\* rows that are left after the rows without price are gone (and stays
\* missing when no such row has a year); host_since is not in the output.
C8_HostSinceYear ==
    Done => /\ ~HasCol(df, Col("host_since"))
            /\ \A k \in OutRows :
                  OutCell(k, Col("host_since_year")) =
                      IF k \in WithYear THEN HostSinceYear(ListingCell(k, "host_since"))
                      ELSE IF WithYear = {} THEN NaN
                           ELSE Rat(SumOfYears(WithYear), Cardinality(WithYear))

\* a returned table with rows of two different years and a row without a year
\* that got their mean
C8_Witness ==
    /\ Done
    /\ \E k \in OutRows : ListingCell(k, "host_since") = Str(HS_2011)
    /\ \E k \in OutRows : ListingCell(k, "host_since") = Str(HS_2014)
    /\ \E k \in OutRows : /\ ListingCell(k, "host_since") \in {NaN, Str(HS_WORD)}
                          /\ OutCell(k, Col("host_since_year")).t = "num"
                          /\ OutCell(k, Col("host_since_year")).d > 1

IdsOf(table, name) == {InputCell(table, i, name) : i \in 1..Len(table.rows)}

\* C9: the table is the inner join of the calendar rows with the listing rows
\* on the listing identifier: right after the merge it has one row for every
\* pair of a calendar row and a listing row with the same identifier, and
\* later never more; every row has the identifier of its calendar row and of
\* its listing row, so a calendar row without listing and a listing without
\* calendar row have no row.
C9_InnerJoin ==
    pc # "merge" =>
        /\ Len(df.rows) <= Cardinality(Matching)
        /\ pc = "drop" => Len(df.rows) = Cardinality(Matching)
        /\ \A k \in OutRows : df.idx[k] \in 0..(Cardinality(Matching) - 1)
        /\ \A k, l \in OutRows : df.idx[k] = df.idx[l] => k = l
        /\ \A k \in OutRows :
              /\ OutCell(k, Col("listing_id")) = CalendarCell(k, "listing_id")
              /\ OutCell(k, Col("listing_id")) = ListingCell(k, "id")
              /\ OutCell(k, Col("listing_id")) \in
                    IdsOf(calendar_df, "listing_id") \cap IdsOf(listings_df, "id")

\* a returned table, of a calendar with a row that has no listing and a
\* listing that has no calendar row
C9_Witness ==
    /\ Done
    /\ df.rows # <<>>
    /\ IdsOf(calendar_df, "listing_id") \ IdsOf(listings_df, "id") # {}
    /\ IdsOf(listings_df, "id") \ IdsOf(calendar_df, "listing_id") # {}

\* the year and the month of the dates "YYYY-MM-DD" of the model's inputs
DateParts(cell) ==
    CASE cell = Str(D_20160704) -> <<Num(2016), Num(7)>>
      [] cell = Str(D_20171130) -> <<Num(2017), Num(11)>>

\* the amounts of the currency strings of the model's inputs
Amount(cell) ==
    CASE cell = Str(P_150) -> Num(150)
      [] cell = Str(P_1250_50) -> Rat(2501, 2)
      [] cell = Str(P_NEGATIVE) -> Num(-5)

\* C10: in every output row year and month are the integers YYYY and MM of
\* the calendar date "YYYY-MM-DD", and price is the number left when '$', ','
\* and blanks are taken out of the price string; date and price_x are not in
\* the output.
C10_DateAndPriceAreConverted ==
    Done => /\ ~HasCol(df, Col("date"))
            /\ ~HasCol(df, Suffixed("price", "_x"))
            /\ \A k \in OutRows :
                  /\ CalendarCell(k, "date") \in {Str(D_20160704), Str(D_20171130)}
                  /\ OutCell(k, Col("year")) = DateParts(CalendarCell(k, "date"))[1]
                  /\ OutCell(k, Col("month")) = DateParts(CalendarCell(k, "date"))[2]
                  /\ CalendarCell(k, "price") \in {Str(P_150), Str(P_1250_50), Str(P_NEGATIVE)}
                        => OutCell(k, Col("price")) = Amount(CalendarCell(k, "price"))

\* a returned table with the row of "2016-07-04" and "$150.00"
C10_Witness ==
    /\ Done
    /\ \E k \in OutRows :
          /\ CalendarCell(k, "date") = Str(D_20160704)
          /\ CalendarCell(k, "price") = Str(P_150)
          /\ OutCell(k, Col("month")) = Num(7)
          /\ OutCell(k, Col("year")) = Num(2016)
          /\ OutCell(k, Col("price")) = Num(150)

\* C11: clean_dataset is deterministic: every run on the same two input
\* tables returns the table that this run returned, the same columns in the
\* same order with the same values, whatever order the interpreter of that
\* run gives to the keys of a dict.
C11_SameOutputInEveryRun ==
    Done => \A order \in DictOrders :
                clean_dataset(listings_df, calendar_df, order) = Returns(df)

Encoded == pc = "encoded"

\* the indicator columns that the notebook's table has for a column
Indicators(c) ==
    {j \in 1..Len(notebook_df.cols) :
        notebook_df.cols[j].base = c.base /\ notebook_df.cols[j].suffix = "_"}

\* C12: after the categorical columns of the cleaned table are one-hot
\* encoded none of them remains, and every row whose value in such a column
\* is missing has 1 in the column's indicator of a missing value and 0 in
\* all other indicators of the column, also when the value is missing in
\* every row.
C12_MissingHasItsIndicator ==
    Encoded => \A c \in Range(cat_columns(df, listings_df)) :
                  /\ ~HasCol(notebook_df, c)
                  /\ \A k \in OutRows :
                        isnull(OutCell(k, c)) =>
                            /\ HasCol(notebook_df, LevelName(c, NaN))
                            /\ \A j \in Indicators(c) :
                                  notebook_df.rows[k][j] =
                                      IF notebook_df.cols[j] = LevelName(c, NaN)
                                      THEN Num(1) ELSE Num(0)

\* the percentages of the host response rates of the model's inputs
ResponseRate(cell) ==
    CASE cell = Str(RR_96) -> 96
      [] cell = Str(RR_100) -> 100

\* the rows of the output whose host_response_rate is a percentage
WithRate == {k \in OutRows : ListingCell(k, "host_response_rate") \in {Str(RR_96), Str(RR_100)}}

Bucket(k) == OutCell(k, Col("host_response_rate_buckets"))

\* C13: in every output row host_response_rate_buckets is an integer from 0
\* to 4, a row with a higher response rate never has a lower bucket, and
\* host_response_rate and host_response_rate_num are not in the output.
C13_BucketsAreOrderedIntegers ==
    Done => /\ ~HasCol(df, Col("host_response_rate"))
            /\ ~HasCol(df, Col("host_response_rate_num"))
            /\ \A k \in OutRows : Bucket(k) \in {Num(b) : b \in 0..(qcut_q - 1)}
            /\ \A k, l \in WithRate :
                  ResponseRate(ListingCell(k, "host_response_rate"))
                      > ResponseRate(ListingCell(l, "host_response_rate"))
                  => RatLe(Bucket(l), Bucket(k))

=============================================================================
